---- MODULE Spec2Model ----
(***************************************************************************)
(* Substring search library (search.py): the four single-pattern scanners, *)
(* the Aho-Corasick automaton and the unified search() dispatcher.         *)
(*                                                                         *)
(* A string is a sequence of code points (ord values).  Python indices are *)
(* zero based; At and Slice translate them.                                *)
(***************************************************************************)
EXTENDS Integers, Sequences, FiniteSets, TLC

VARIABLES
    call,      \* API level: the call made (operation and arguments), or idle
    ret,       \* API level: the value the call returned
    alg,       \* loop level: the scanner whose loop is running
    text,      \* loop level: text argument of the running scanner
    pattern,   \* loop level: pattern argument of the running scanner
    loop,      \* loop level: the scanner's local variables at the loop head
    patterns,  \* build level: argument of build_automaton
    aut,       \* build level: the AhoCorasick object (goto, fail, output)
    queue,     \* build level: the breadth-first queue of build_automaton
    pc         \* build level: position inside build_automaton

vars == <<call, ret, alg, text, pattern, loop, patterns, aut, queue, pc>>

----------------------------------------------------------------------------
(* Bounds of the explored inputs.                                          *)

MaxTextLen == 4
MaxPatLen == 3
MaxSearchTextLen == 3
MaxSearchPatLen == 2
MaxListTextLen == 2
MaxListSize == 4
MaxCount == 3
MaxTotalLen == 6

\* 'A', 'a', 'b': two letters and an upper-case form of one of them.
Alphabet == {65, 97, 98}
\* 'a', 'b' and 198, whose residue modulo 101 equals that of 'a' (97).
ScanAlphabet == {97, 98, 198}
\* 'a', 'b'
BuildAlphabet == {97, 98}

----------------------------------------------------------------------------
(* Python built-ins used by the code.                                      *)

Max(a, b) == IF a >= b THEN a ELSE b
Min(a, b) == IF a <= b THEN a ELSE b

\* Raised by an index outside the sequence.
IndexError == -1

\* s[i]
At(s, i) ==
    IF 0 <= i /\ i < Len(s) THEN s[i + 1]
    ELSE IF -Len(s) <= i /\ i < 0 THEN s[Len(s) + i + 1]
    ELSE IndexError

\* s[a:b] for a >= 0, b >= 0
Slice(s, a, b) == SubSeq(s, a + 1, Min(b, Len(s)))

\* s[::-1]
Reverse(s) == [k \in 1..Len(s) |-> s[Len(s) + 1 - k]]

\* s[:n], n of either sign
Take(s, n) ==
    IF n >= 0 THEN SubSeq(s, 1, Min(n, Len(s)))
    ELSE SubSeq(s, 1, Max(Len(s) + n, 0))

\* str.lower() on the code points of Alphabet
LowerChar(c) == IF 65 <= c /\ c <= 90 THEN c + 32 ELSE c
Lower(s) == [k \in 1..Len(s) |-> LowerChar(s[k])]

Range(s) == {s[k] : k \in 1..Len(s)}

\* d.get(key, default)
Get(d, key, default) == IF key \in DOMAIN d THEN d[key] ELSE default

\* All sequences over S of length lo..hi.
SeqsOf(S, lo, hi) == UNION {[1..n -> S] : n \in lo..hi}

----------------------------------------------------------------------------
(* compute_lps and kmp_search                                              *)

RECURSIVE lps_loop(_, _, _, _)
lps_loop(p, i, length, lps) ==
    IF i < Len(p) THEN
        IF At(p, i) = At(p, length) THEN
            lps_loop(p, i + 1, length + 1, [lps EXCEPT ![i + 1] = length + 1])
        ELSE IF length # 0 THEN
            lps_loop(p, i, At(lps, length - 1), lps)
        ELSE
            lps_loop(p, i + 1, length, [lps EXCEPT ![i + 1] = 0])
    ELSE lps

compute_lps(p) == lps_loop(p, 1, 0, [k \in 1..Len(p) |-> 0])

\* One iteration of the while loop of kmp_search; s = [i, j, matches].
kmp_step(t, p, lps, s) ==
    LET adv == At(p, s.j) = At(t, s.i)
        i1 == IF adv THEN s.i + 1 ELSE s.i
        j1 == IF adv THEN s.j + 1 ELSE s.j
    IN  IF j1 = Len(p) THEN
            [i |-> i1, j |-> At(lps, j1 - 1), matches |-> Append(s.matches, i1 - j1)]
        ELSE IF i1 < Len(t) /\ At(p, j1) # At(t, i1) THEN
            IF j1 # 0 THEN [i |-> i1, j |-> At(lps, j1 - 1), matches |-> s.matches]
            ELSE [i |-> i1 + 1, j |-> j1, matches |-> s.matches]
        ELSE [i |-> i1, j |-> j1, matches |-> s.matches]

RECURSIVE kmp_loop(_, _, _, _)
kmp_loop(t, p, lps, s) ==
    IF s.i < Len(t) THEN kmp_loop(t, p, lps, kmp_step(t, p, lps, s))
    ELSE s.matches

kmp_search(t, p) ==
    IF p = <<>> THEN <<>>
    ELSE kmp_loop(t, p, compute_lps(p), [i |-> 0, j |-> 0, matches |-> <<>>])

----------------------------------------------------------------------------
(* bad_char_table and boyer_moore_search                                   *)

RECURSIVE bad_char_loop(_, _, _)
bad_char_loop(p, i, table) ==
    IF i < Len(p) THEN bad_char_loop(p, i + 1, (At(p, i) :> i) @@ table)
    ELSE table

bad_char_table(p) == bad_char_loop(p, 0, <<>>)

\* The inner while loop shared by both Boyer-Moore scanners: the value of j
\* when it exits.
RECURSIVE compare_back(_, _, _, _)
compare_back(t, p, shift, j) ==
    IF j >= 0 /\ At(p, j) = At(t, shift + j) THEN compare_back(t, p, shift, j - 1)
    ELSE j

\* while shift <= len(text) - len(pattern)
bm_guard(t, p, shift) == shift <= Len(t) - Len(p)

\* The shift without its floor of 1.
bm_shift_unclamped(t, shift, j, bad_char) == j - Get(bad_char, At(t, shift + j), -1)

\* max(1, j - bad_char.get(text[shift + j], -1))
bm_shift(t, shift, j, bad_char) == Max(1, j - Get(bad_char, At(t, shift + j), -1))

\* One iteration of the outer loop; s = [shift, matches, iters].
bm_step(t, p, s) ==
    LET j == compare_back(t, p, s.shift, Len(p) - 1)
    IN  IF j < 0 THEN
            [shift |-> s.shift + 1, matches |-> Append(s.matches, s.shift),
             iters |-> s.iters + 1]
        ELSE
            [shift |-> s.shift + bm_shift(t, s.shift, j, bad_char_table(p)),
             matches |-> s.matches, iters |-> s.iters + 1]

\* The text indices one iteration reads.
bm_reads(t, p, shift) ==
    {shift + k : k \in Max(compare_back(t, p, shift, Len(p) - 1), 0)..(Len(p) - 1)}

bm_start == [shift |-> 0, matches |-> <<>>, iters |-> 0]

RECURSIVE bm_loop(_, _, _)
bm_loop(t, p, s) ==
    IF bm_guard(t, p, s.shift) THEN bm_loop(t, p, bm_step(t, p, s))
    ELSE s.matches

boyer_moore_search(t, p) ==
    IF p = <<>> THEN <<>> ELSE bm_loop(t, p, bm_start)

----------------------------------------------------------------------------
(* boyer_moore_horspool_search                                             *)

\* for i in range(len(pattern) - 1): skip[pattern[i]] = len(pattern) - i - 1
RECURSIVE skip_loop(_, _, _)
skip_loop(p, i, skip) ==
    IF i < Len(p) - 1 THEN skip_loop(p, i + 1, (At(p, i) :> (Len(p) - i - 1)) @@ skip)
    ELSE skip

skip_table(p) == skip_loop(p, 0, <<>>)

\* while i <= len(text) - len(pattern)
bmh_guard(t, p, i) == i <= Len(t) - Len(p)

\* The skip that ignores the table.
bmh_skip_full(t, p, i, skip) == Len(p)

\* skip.get(text[i + len(pattern) - 1], len(pattern))
bmh_skip(t, p, i, skip) == Get(skip, At(t, i + Len(p) - 1), Len(p))

\* One iteration of the outer loop; s = [i, matches, iters].
bmh_step(t, p, s) ==
    LET j == compare_back(t, p, s.i, Len(p) - 1)
    IN  IF j < 0 THEN
            [i |-> s.i + 1, matches |-> Append(s.matches, s.i), iters |-> s.iters + 1]
        ELSE
            [i |-> s.i + bmh_skip(t, p, s.i, skip_table(p)),
             matches |-> s.matches, iters |-> s.iters + 1]

bmh_reads(t, p, i) ==
    bm_reads(t, p, i) \cup
        (IF compare_back(t, p, i, Len(p) - 1) >= 0 THEN {i + Len(p) - 1} ELSE {})

bmh_start == [i |-> 0, matches |-> <<>>, iters |-> 0]

RECURSIVE bmh_loop(_, _, _)
bmh_loop(t, p, s) ==
    IF bmh_guard(t, p, s.i) THEN bmh_loop(t, p, bmh_step(t, p, s))
    ELSE s.matches

boyer_moore_horspool_search(t, p) ==
    IF p = <<>> THEN <<>> ELSE bmh_loop(t, p, bmh_start)

----------------------------------------------------------------------------
(* rolling_hash and rabin_karp_search                                      *)

base == 256
mod == 101

RECURSIVE hash_loop(_, _, _, _)
hash_loop(s, k, b, m) ==
    IF k = 0 THEN 0 ELSE (hash_loop(s, k - 1, b, m) * b + s[k]) % m

rolling_hash(s, b, m) == hash_loop(s, Len(s), b, m)

\* pow(b, e, m)
RECURSIVE pow(_, _, _)
pow(b, e, m) == IF e = 0 THEN 1 % m ELSE (pow(b, e - 1, m) * b) % m

\* The three assignments that slide the window from i to i + 1.
rk_roll(t, p, i, text_hash, h) ==
    LET h1 == (text_hash - At(t, i) * h) % mod
        h2 == (h1 * base + At(t, i + Len(p))) % mod
    IN  (h2 + mod) % mod

\* Acceptance on hash equality alone.
rk_accept_hash_only(t, p, i, pattern_hash, text_hash) == pattern_hash = text_hash

\* if pattern_hash == text_hash: if text[i:i + pattern_len] == pattern
rk_accept(t, p, i, pattern_hash, text_hash) ==
    pattern_hash = text_hash /\ Slice(t, i, i + Len(p)) = p

\* One iteration of the for loop; s = [i, text_hash, matches].
rk_step(t, p, s) ==
    LET h == pow(base, Len(p) - 1, mod)
    IN  [i |-> s.i + 1,
         text_hash |-> IF s.i < Len(t) - Len(p)
                       THEN rk_roll(t, p, s.i, s.text_hash, h)
                       ELSE s.text_hash,
         matches |-> IF rk_accept(t, p, s.i, rolling_hash(p, base, mod), s.text_hash)
                     THEN Append(s.matches, s.i)
                     ELSE s.matches]

\* for i in range(text_len - pattern_len + 1)
rk_guard(t, p, i) == i < Len(t) - Len(p) + 1

rk_start(t, p) ==
    [i |-> 0, text_hash |-> rolling_hash(Slice(t, 0, Len(p)), base, mod),
     matches |-> <<>>]

RECURSIVE rk_loop(_, _, _)
rk_loop(t, p, s) ==
    IF rk_guard(t, p, s.i) THEN rk_loop(t, p, rk_step(t, p, s))
    ELSE s.matches

rabin_karp_search(t, p) ==
    IF p = <<>> THEN <<>>
    ELSE IF Len(p) > Len(t) THEN <<>>
    ELSE rk_loop(t, p, rk_start(t, p))

----------------------------------------------------------------------------
(* Loop level: one scanner runs on one input, one loop iteration per step. *)

Idle == "idle"
NoCall == [op |-> "idle"]
NoReturn == [kind |-> "pending"]

ScanTexts == SeqsOf(ScanAlphabet, 0, MaxTextLen)
ScanPatterns == SeqsOf(ScanAlphabet, 0, MaxPatLen)

InitScan ==
    /\ text \in ScanTexts
    /\ pattern \in ScanPatterns
    /\ alg \in {"bm", "bmh", "rk"}
    /\ loop = IF pattern = <<>> \/ (alg = "rk" /\ Len(pattern) > Len(text))
              THEN [returned |-> <<>>]
              ELSE IF alg = "bm" THEN bm_start
              ELSE IF alg = "bmh" THEN bmh_start
              ELSE rk_start(text, pattern)
    /\ call = NoCall /\ ret = NoReturn
    /\ patterns = Idle /\ aut = Idle /\ queue = Idle /\ pc = Idle

Running == "returned" \notin DOMAIN loop

BmIterate ==
    /\ alg = "bm" /\ Running /\ bm_guard(text, pattern, loop.shift)
    /\ loop' = bm_step(text, pattern, loop)
    /\ UNCHANGED <<call, ret, alg, text, pattern, patterns, aut, queue, pc>>

BmReturn ==
    /\ alg = "bm" /\ Running /\ ~bm_guard(text, pattern, loop.shift)
    /\ loop' = [returned |-> loop.matches, iters |-> loop.iters]
    /\ UNCHANGED <<call, ret, alg, text, pattern, patterns, aut, queue, pc>>

BmhIterate ==
    /\ alg = "bmh" /\ Running /\ bmh_guard(text, pattern, loop.i)
    /\ loop' = bmh_step(text, pattern, loop)
    /\ UNCHANGED <<call, ret, alg, text, pattern, patterns, aut, queue, pc>>

BmhReturn ==
    /\ alg = "bmh" /\ Running /\ ~bmh_guard(text, pattern, loop.i)
    /\ loop' = [returned |-> loop.matches, iters |-> loop.iters]
    /\ UNCHANGED <<call, ret, alg, text, pattern, patterns, aut, queue, pc>>

RkIterate ==
    /\ alg = "rk" /\ Running /\ rk_guard(text, pattern, loop.i)
    /\ loop' = rk_step(text, pattern, loop)
    /\ UNCHANGED <<call, ret, alg, text, pattern, patterns, aut, queue, pc>>

RkReturn ==
    /\ alg = "rk" /\ Running /\ ~rk_guard(text, pattern, loop.i)
    /\ loop' = [returned |-> loop.matches, iters |-> loop.i]
    /\ UNCHANGED <<call, ret, alg, text, pattern, patterns, aut, queue, pc>>

NextScan ==
    \/ BmIterate \/ BmReturn
    \/ BmhIterate \/ BmhReturn
    \/ RkIterate \/ RkReturn

SpecScan == InitScan /\ [][NextScan]_vars

----------------------------------------------------------------------------
(* class AhoCorasick                                                       *)

\* __init__: goto maps (state, char) to a state, fail maps a state to a
\* state, output maps a state to a list of patterns.
new_automaton == [goto |-> <<>>, fail |-> <<>>, output |-> <<>>]

\* Raised by a dictionary lookup of a missing key.
KeyError == -1

\* The walk of one pattern through goto, lines 135-140: the transitions
\* after it and the state it ends in.
RECURSIVE insert_chars(_, _, _, _)
insert_chars(goto, p, k, current_state) ==
    IF k > Len(p) THEN [goto |-> goto, state |-> current_state]
    ELSE
        LET key == <<current_state, p[k]>>
            g1 == IF key \notin DOMAIN goto
                  THEN (key :> (Cardinality(DOMAIN goto) + 1)) @@ goto
                  ELSE goto
        IN  insert_chars(g1, p, k + 1, g1[key])

\* One iteration of "for pattern in patterns".
insert_pattern(a, p) ==
    LET r == insert_chars(a.goto, p, 1, 0)
        o0 == IF r.state \notin DOMAIN a.output
              THEN (r.state :> <<>>) @@ a.output
              ELSE a.output
    IN  [a EXCEPT !.goto = r.goto,
                  !.output = [o0 EXCEPT ![r.state] = Append(@, p)]]

\* set(char for (state, char) in self.goto.keys() if state == r)
child_chars(goto, r) == {key[2] : key \in {k \in DOMAIN goto : k[1] = r}}

\* The orders in which a set can be iterated.
Orders(S) == {s \in [1..Cardinality(S) -> S] : Range(s) = S}

\* self.fail[s]
fail_of(a, s) == IF s \in DOMAIN a.fail THEN a.fail[s] ELSE KeyError

\* while state != 0 and (state, char) not in self.goto: state = self.fail[state]
RECURSIVE fail_walk(_, _, _)
fail_walk(a, state, char) ==
    IF state = KeyError THEN KeyError
    ELSE IF state # 0 /\ <<state, char>> \notin DOMAIN a.goto
         THEN fail_walk(a, fail_of(a, state), char)
         ELSE state

\* The merge of the failure target's output into u's, lines 168-171.
merge_output(output, u, target) ==
    IF target \in DOMAIN output THEN
        LET o0 == IF u \notin DOMAIN output THEN (u :> <<>>) @@ output ELSE output
        IN  [o0 EXCEPT ![u] = @ \o o0[target]]
    ELSE output

\* The body of "for char in ..." for one child of r, lines 156-171.
process_child(a, r, char) ==
    LET u == a.goto[<<r, char>>]
        state == fail_walk(a, fail_of(a, r), char)
        target == IF state = KeyError THEN KeyError
                  ELSE IF <<state, char>> \in DOMAIN a.goto
                       THEN a.goto[<<state, char>>]
                       ELSE 0
    IN  [a EXCEPT !.fail = (u :> target) @@ a.fail,
                  !.output = merge_output(a.output, u, target)]

\* r = queue.pop(): the newest entry instead of the oldest.
queue_pop_lifo(q) == [r |-> q[Len(q)], rest |-> SubSeq(q, 1, Len(q) - 1)]

\* r = queue.pop(0)
queue_pop(q) == [r |-> Head(q), rest |-> Tail(q)]

\* The children of r handled in the order chars; s = [aut, queue].
RECURSIVE process_children(_, _, _, _)
process_children(s, r, chars, k) ==
    IF k > Len(chars) THEN s
    ELSE process_children(
             [aut |-> process_child(s.aut, r, chars[k]),
              queue |-> Append(s.queue, s.aut.goto[<<r, chars[k]>>])],
             r, chars, k + 1)

\* Lines 147-151: the root's children get fail 0 and enter the queue.
fail_init(a, chars) ==
    [aut |-> [a EXCEPT !.fail =
                 [u \in {a.goto[<<0, c>>] : c \in Range(chars)} |-> 0]],
     queue |-> [k \in 1..Len(chars) |-> a.goto[<<0, chars[k]>>]]]

\* One iteration of "while queue".
bfs_step(s, chars) ==
    LET popped == queue_pop(s.queue)
    IN  process_children([aut |-> s.aut, queue |-> popped.rest], popped.r, chars, 1)

\* Python iterates a set of characters in an order the code does not fix;
\* order lists the characters in the order the run happens to use.
InOrder(S, order) == SelectSeq(order, LAMBDA c : c \in S)

RECURSIVE insert_all(_, _, _)
insert_all(a, ps, k) ==
    IF k > Len(ps) THEN a ELSE insert_all(insert_pattern(a, ps[k]), ps, k + 1)

RECURSIVE bfs_loop(_, _)
bfs_loop(s, order) ==
    IF s.queue # <<>> THEN
        bfs_loop(bfs_step(s, InOrder(child_chars(s.aut.goto, Head(s.queue)), order)),
                 order)
    ELSE s.aut

build_automaton(ps, order) ==
    LET a == insert_all(new_automaton, ps, 1)
    IN  bfs_loop(fail_init(a, InOrder(child_chars(a.goto, 0), order)), order)

\* result[pattern].append(pos), result an insertion-ordered dictionary kept
\* as a sequence of [key, val] entries.
dict_append(result, key, pos) ==
    IF \E k \in 1..Len(result) : result[k].key = key THEN
        [k \in 1..Len(result) |->
            IF result[k].key = key
            THEN [key |-> key, val |-> Append(result[k].val, pos)]
            ELSE result[k]]
    ELSE Append(result, [key |-> key, val |-> <<pos>>])

RECURSIVE record_outputs(_, _, _, _)
record_outputs(result, out, k, i) ==
    IF k > Len(out) THEN result
    ELSE record_outputs(dict_append(result, out[k], i - Len(out[k]) + 1), out, k + 1, i)

\* One iteration of "for i, char in enumerate(text)"; s = [state, result].
ac_step(a, t, i, s) ==
    LET char == At(t, i)
        s1 == fail_walk(a, s.state, char)
        s2 == IF <<s1, char>> \in DOMAIN a.goto THEN a.goto[<<s1, char>>] ELSE s1
    IN  [state |-> s2,
         result |-> IF s2 \in DOMAIN a.output
                    THEN record_outputs(s.result, a.output[s2], 1, i)
                    ELSE s.result]

RECURSIVE ac_loop(_, _, _, _)
ac_loop(a, t, i, s) ==
    IF i < Len(t) THEN ac_loop(a, t, i + 1, ac_step(a, t, i, s)) ELSE s.result

\* AhoCorasick.search
ac_search(a, t) == ac_loop(a, t, 0, [state |-> 0, result |-> <<>>])

----------------------------------------------------------------------------
(* Build level: build_automaton runs on one pattern list, one loop         *)
(* iteration per step.                                                     *)

\* Every list of non-empty strings over S whose lengths add up to at most n.
RECURSIVE ListsWithin(_, _)
ListsWithin(S, n) ==
    {<<>>} \cup
    UNION {{<<p>> \o l : l \in ListsWithin(S, n - Len(p))} : p \in SeqsOf(S, 1, n)}

InitBuild ==
    /\ patterns \in ListsWithin(BuildAlphabet, MaxTotalLen)
    /\ aut = new_automaton
    /\ queue = <<>>
    /\ pc = [at |-> "insert", k |-> 1]
    /\ call = NoCall /\ ret = NoReturn
    /\ alg = Idle /\ text = Idle /\ pattern = Idle /\ loop = Idle

Insert ==
    /\ pc.at = "insert" /\ pc.k <= Len(patterns)
    /\ aut' = insert_pattern(aut, patterns[pc.k])
    /\ pc' = [pc EXCEPT !.k = @ + 1]
    /\ UNCHANGED <<call, ret, alg, text, pattern, loop, patterns, queue>>

FailInit ==
    /\ pc.at = "insert" /\ pc.k > Len(patterns)
    /\ \E chars \in Orders(child_chars(aut.goto, 0)) :
          LET s == fail_init(aut, chars)
          IN  aut' = s.aut /\ queue' = s.queue
    /\ pc' = [at |-> "bfs", k |-> 0]
    /\ UNCHANGED <<call, ret, alg, text, pattern, loop, patterns>>

BfsPop ==
    /\ pc.at = "bfs" /\ queue # <<>>
    /\ \E chars \in Orders(child_chars(aut.goto, queue_pop(queue).r)) :
          LET s == bfs_step([aut |-> aut, queue |-> queue], chars)
          IN  aut' = s.aut /\ queue' = s.queue
    /\ pc' = [pc EXCEPT !.k = @ + 1]
    /\ UNCHANGED <<call, ret, alg, text, pattern, loop, patterns>>

Built ==
    /\ pc.at = "bfs" /\ queue = <<>>
    /\ pc' = [pc EXCEPT !.at = "built"]
    /\ UNCHANGED <<call, ret, alg, text, pattern, loop, patterns, aut, queue>>

NextBuild == Insert \/ FailInit \/ BfsPop \/ Built

SpecBuild == InitBuild /\ [][NextBuild]_vars

----------------------------------------------------------------------------
(* search: the dispatcher.  None is the absent value; count is <<>> for    *)
(* None and <<k>> for the integer k.                                       *)

None == [kind |-> "None"]
ListOf(s) == [kind |-> "list", val |-> s]
TupleOf(s) == [kind |-> "tuple", val |-> s]
DictOf(d) == [kind |-> "dict", val |-> d]

\* p if case_sensitivity else p.lower()
fold(s, case_sensitivity) == IF case_sensitivity THEN s ELSE Lower(s)

\* if method == 'last': matches = matches[::-1]
apply_direction(matches, method) ==
    IF method = "last" THEN Reverse(matches) ELSE matches

\* The limit taken one entry too far.
apply_limit_one_more(matches, count) ==
    IF count # <<>> THEN Take(matches, count[1] + 1) ELSE matches

\* if count is not None: matches = matches[:count]
apply_limit(matches, count) ==
    IF count # <<>> THEN Take(matches, count[1]) ELSE matches

\* The limit applied before the reversal.
limit_then_direct(matches, method, count) ==
    apply_direction(apply_limit(matches, count), method)

\* Lines 268-274 and 301-307: direction first, then the limit.
direct_and_limit(matches, method, count) ==
    apply_limit(apply_direction(matches, method), count)

\* The single-pattern branch, lines 259-276.
search_single(search_string, sub_string, case_sensitivity, method, count) ==
    IF sub_string = <<>> THEN None
    ELSE
        LET matches == kmp_search(search_string, fold(sub_string, case_sensitivity))
        IN  IF matches = <<>> THEN None
            ELSE
                LET limited == direct_and_limit(matches, method, count)
                IN  IF limited # <<>> THEN TupleOf(limited) ELSE None

\* The list with its empty strings kept.
filter_patterns_keep_empty(sub_string, case_sensitivity) ==
    [k \in 1..Len(sub_string) |-> fold(sub_string[k], case_sensitivity)]

\* [p if case_sensitivity else p.lower() for p in sub_string if p]
filter_patterns(sub_string, case_sensitivity) ==
    LET kept == SelectSeq(sub_string, LAMBDA p : p # <<>>)
    IN  [k \in 1..Len(kept) |-> fold(kept[k], case_sensitivity)]

\* Lines 293-296: the (pos, pattern) pairs in the dictionary's order.
RECURSIVE flatten(_, _)
flatten(all_matches, k) ==
    IF k > Len(all_matches) THEN <<>>
    ELSE [n \in 1..Len(all_matches[k].val) |->
             [pos |-> all_matches[k].val[n], pattern |-> all_matches[k].key]]
         \o flatten(all_matches, k + 1)

\* list.sort(key=lambda x: x[0]): stable, ascending by position.
RECURSIVE sort_by_pos(_)
sort_by_pos(s) ==
    IF s = <<>> THEN <<>>
    ELSE
        LET rest == sort_by_pos(SubSeq(s, 1, Len(s) - 1))
            x == s[Len(s)]
            n == Cardinality({k \in 1..Len(rest) : rest[k].pos <= x.pos})
        IN  SubSeq(rest, 1, n) \o <<x>> \o SubSeq(rest, n + 1, Len(rest))

\* Lines 287-307: the pairs left after sorting, direction and limit.
limited_results(search_string, pats, method, count, order) ==
    LET all_matches == ac_search(build_automaton(pats, order), search_string)
    IN  direct_and_limit(sort_by_pos(flatten(all_matches, 1)), method, count)

\* [pos for pos, p in all_results if p == pattern]
positions_of(all_results, pat) ==
    LET sel == SelectSeq(all_results, LAMBDA x : x.pattern = pat)
    IN  [k \in 1..Len(sel) |-> sel[k].pos]

\* The mapping keyed by the lower-cased patterns.
regroup_by_folded(sub_string, all_results, case_sensitivity) ==
    [o \in {fold(x, case_sensitivity) : x \in Range(sub_string)} |->
        LET matches == positions_of(all_results, o)
        IN  IF matches # <<>> THEN TupleOf(matches) ELSE None]

\* Lines 310-314: the mapping keyed by the original patterns.
regroup(sub_string, all_results, case_sensitivity) ==
    [o \in Range(sub_string) |->
        LET matches == positions_of(all_results, fold(o, case_sensitivity))
        IN  IF matches # <<>> THEN TupleOf(matches) ELSE None]

\* The list branch, lines 280-316.
search_multi(search_string, sub_string, case_sensitivity, method, count, order) ==
    IF sub_string = <<>> THEN None
    ELSE
        LET pats == filter_patterns(sub_string, case_sensitivity)
        IN  IF pats = <<>> THEN None
            ELSE
                LET all_results ==
                        limited_results(search_string, pats, method, count, order)
                    result == regroup(sub_string, all_results, case_sensitivity)
                IN  IF \E o \in DOMAIN result : result[o].kind # "None"
                    THEN DictOf(result)
                    ELSE None

\* search(string, sub_string, case_sensitivity, method, count); is_list tells
\* a list from a str, order is the set iteration order of the run.
search(string, sub_string, is_list, case_sensitivity, method, count, order) ==
    IF string = <<>> THEN None
    ELSE
        LET search_string == fold(string, case_sensitivity)
        IN  IF ~is_list
            THEN search_single(search_string, sub_string, case_sensitivity, method, count)
            ELSE search_multi(search_string, sub_string, case_sensitivity, method,
                              count, order)

----------------------------------------------------------------------------
(* API level: one call of one public function per behaviour.               *)

Texts == SeqsOf(Alphabet, 0, MaxSearchTextLen)
Patterns == SeqsOf(Alphabet, 0, MaxSearchPatLen)
ListTexts == SeqsOf(Alphabet, 0, MaxListTextLen)

\* Every list of strings over S, empty ones allowed, whose number of entries
\* and number of characters add up to at most n.
RECURSIVE ListsOfSize(_, _)
ListsOfSize(S, n) ==
    {<<>>} \cup
    UNION {{<<p>> \o l : l \in ListsOfSize(S, n - 1 - Len(p))} : p \in SeqsOf(S, 0, n - 1)}

PatternLists == ListsOfSize(Alphabet, MaxListSize)
Counts == {<<>>} \cup {<<k>> : k \in 0..MaxCount}
Methods == {"first", "last"}

CharsOf(ps) == UNION {Range(ps[k]) : k \in 1..Len(ps)}

ScannerOps ==
    {"kmp_search", "boyer_moore_search", "boyer_moore_horspool_search",
     "rabin_karp_search"}

ScannerCalls == [op : ScannerOps, text : ScanTexts, pattern : ScanPatterns]

\* The scanners on the inputs search is given.
DirectCalls == [op : ScannerOps, text : Texts, pattern : Patterns]

AutomatonCalls ==
    [op : {"AhoCorasick"}, patterns : ListsWithin(BuildAlphabet, MaxTotalLen),
     text : SeqsOf(BuildAlphabet, 0, MaxTextLen)]

SearchStrCalls ==
    [op : {"search"}, is_list : {FALSE}, string : Texts, sub_string : Patterns,
     case_sensitivity : BOOLEAN, method : Methods, count : Counts]

SearchListCalls ==
    [op : {"search"}, is_list : {TRUE}, string : ListTexts, sub_string : PatternLists,
     case_sensitivity : BOOLEAN, method : Methods, count : Counts]

LoopAndBuildIdle ==
    /\ alg = Idle /\ text = Idle /\ pattern = Idle /\ loop = Idle
    /\ patterns = Idle /\ aut = Idle /\ queue = Idle /\ pc = Idle

Returns(value) ==
    /\ ret' = value
    /\ UNCHANGED <<call, alg, text, pattern, loop, patterns, aut, queue, pc>>

CallKmp ==
    /\ call.op = "kmp_search" /\ ret.kind = "pending"
    /\ Returns(ListOf(kmp_search(call.text, call.pattern)))

CallBoyerMoore ==
    /\ call.op = "boyer_moore_search" /\ ret.kind = "pending"
    /\ Returns(ListOf(boyer_moore_search(call.text, call.pattern)))

CallHorspool ==
    /\ call.op = "boyer_moore_horspool_search" /\ ret.kind = "pending"
    /\ Returns(ListOf(boyer_moore_horspool_search(call.text, call.pattern)))

CallRabinKarp ==
    /\ call.op = "rabin_karp_search" /\ ret.kind = "pending"
    /\ Returns(ListOf(rabin_karp_search(call.text, call.pattern)))

\* ac = AhoCorasick(); ac.build_automaton(patterns); ac.search(text)
CallAhoCorasick ==
    /\ call.op = "AhoCorasick" /\ ret.kind = "pending"
    /\ \E order \in Orders(CharsOf(call.patterns)) :
          Returns(DictOf(ac_search(build_automaton(call.patterns, order), call.text)))

CallSearchStr ==
    /\ call.op = "search" /\ ~call.is_list /\ ret.kind = "pending"
    /\ Returns(search(call.string, call.sub_string, FALSE, call.case_sensitivity,
                      call.method, call.count, <<>>))

CallSearchList ==
    /\ call.op = "search" /\ call.is_list /\ ret.kind = "pending"
    /\ \E order \in Orders(CharsOf(filter_patterns(call.sub_string,
                                                    call.case_sensitivity))) :
          Returns(search(call.string, call.sub_string, TRUE, call.case_sensitivity,
                         call.method, call.count, order))

\* search and the four scanners that can be called directly.
Init ==
    /\ call \in DirectCalls \cup SearchStrCalls \cup SearchListCalls
    /\ ret = NoReturn
    /\ LoopAndBuildIdle

Next ==
    \/ CallKmp \/ CallBoyerMoore \/ CallHorspool \/ CallRabinKarp
    \/ CallSearchStr \/ CallSearchList

Spec == Init /\ [][Next]_vars

\* The four single-pattern scanners alone.
InitScanners == call \in ScannerCalls /\ ret = NoReturn /\ LoopAndBuildIdle

NextScanners == CallKmp \/ CallBoyerMoore \/ CallHorspool \/ CallRabinKarp

SpecScanners == InitScanners /\ [][NextScanners]_vars

\* The automaton alone.
InitAutomaton == call \in AutomatonCalls /\ ret = NoReturn /\ LoopAndBuildIdle

NextAutomaton == CallAhoCorasick

SpecAutomaton == InitAutomaton /\ [][NextAutomaton]_vars

\* search with a single pattern alone.
InitSearchStr == call \in SearchStrCalls /\ ret = NoReturn /\ LoopAndBuildIdle

NextSearchStr == CallSearchStr

SpecSearchStr == InitSearchStr /\ [][NextSearchStr]_vars

----------------------------------------------------------------------------
(* What the results are measured against.                                  *)

\* The start positions of p in t, ascending.
RECURSIVE OccFrom(_, _, _)
OccFrom(t, p, i) ==
    IF i > Len(t) - Len(p) THEN <<>>
    ELSE IF SubSeq(t, i + 1, i + Len(p)) = p THEN <<i>> \o OccFrom(t, p, i + 1)
    ELSE OccFrom(t, p, i + 1)

Occurrences(t, p) == IF p = <<>> THEN <<>> ELSE OccFrom(t, p, 0)

IsSuffix(w, s) ==
    Len(w) <= Len(s) /\ SubSeq(s, Len(s) - Len(w) + 1, Len(s)) = w

\* The strings that are paths from the root of the trie of ps.
Prefixes(ps) == UNION {{SubSeq(ps[n], 1, k) : k \in 0..Len(ps[n])} : n \in 1..Len(ps)}

\* The state the path w, a path of the trie, leads to from s.
RECURSIVE Walk(_, _, _, _)
Walk(goto, w, k, s) ==
    IF k > Len(w) THEN s ELSE Walk(goto, w, k + 1, goto[<<s, w[k]>>])

\* The string state u spells.
StringOf(u) == CHOOSE w \in Prefixes(patterns) : Walk(aut.goto, w, 1, 0) = u

\* The state of the longest proper suffix of u's string that is a path.
ExpectedFail(u) ==
    LET s == StringOf(u)
        cands == {w \in Prefixes(patterns) : Len(w) < Len(s) /\ IsSuffix(w, s)}
        longest == CHOOSE w \in cands : \A v \in cands : Len(v) <= Len(w)
    IN  Walk(aut.goto, longest, 1, 0)

ExpectedOutput(u) == {p \in Range(patterns) : IsSuffix(p, StringOf(u))}

OutputSet(u) == IF u \in DOMAIN aut.output THEN Range(aut.output[u]) ELSE {}

----------------------------------------------------------------------------
(* C8: while and after build_automaton computes the failure links, every   *)
(* state u that has a failure link has the right one (the state of the     *)
(* longest proper suffix of u's string that is a trie path, else the root) *)
(* and its output already lists exactly the patterns that are suffixes of  *)
(* u's string; when a state is popped, its own link and the link of each   *)
(* child's failure target are already set; at the end every non-root state *)
(* has a link.                                                             *)
C8_FailureLinks ==
    pc.at \in {"bfs", "built"} =>
        /\ \A u \in DOMAIN aut.fail :
              /\ aut.fail[u] = ExpectedFail(u)
              /\ OutputSet(u) = ExpectedOutput(u)
        /\ queue # <<>> =>
              LET r == Head(queue)
              IN  /\ r \in DOMAIN aut.fail
                  /\ \A c \in child_chars(aut.goto, r) :
                        ExpectedFail(aut.goto[<<r, c>>]) \in DOMAIN aut.fail \cup {0}
        /\ pc.at = "built" => DOMAIN aut.fail = 1..Cardinality(DOMAIN aut.goto)

\* A finished build with a failure chain of two links below a state whose
\* output holds three patterns.
C8_Witness ==
    /\ pc.at = "built"
    /\ \E u \in DOMAIN aut.fail :
          /\ aut.fail[u] # 0
          /\ aut.fail[aut.fail[u]] # 0
          /\ Cardinality(OutputSet(u)) >= 3

----------------------------------------------------------------------------
Window(i) == Slice(text, i, i + Len(pattern))

(* C9: in rabin_karp_search, at the head of every loop iteration i the     *)
(* running text_hash is in 0..100 and equals rolling_hash of the window    *)
(* text[i:i+len(pattern)]; every position in matches is a true occurrence  *)
(* and every true occurrence before i is in matches, whatever the hash     *)
(* collisions.                                                             *)
C9_RollingHash ==
    (alg = "rk" /\ Running) =>
        /\ loop.text_hash \in 0..(mod - 1)
        /\ rk_guard(text, pattern, loop.i) =>
              loop.text_hash = rolling_hash(Window(loop.i), base, mod)
        /\ \A k \in Range(loop.matches) : Window(k) = pattern
        /\ \A k \in 0..(loop.i - 1) : Window(k) = pattern => k \in Range(loop.matches)

\* The loop has passed a window whose hash collides with the pattern's
\* without being equal to it, and has found a true occurrence.
C9_Witness ==
    /\ alg = "rk" /\ Running
    /\ loop.matches # <<>>
    /\ \E k \in 0..(loop.i - 1) :
          /\ rolling_hash(Window(k), base, mod) = rolling_hash(pattern, base, mod)
          /\ Window(k) # pattern
          /\ k \notin Range(loop.matches)

----------------------------------------------------------------------------
IterationBound == Max(0, Len(text) - Len(pattern) + 1)

(* C10: in boyer_moore_search and boyer_moore_horspool_search every loop   *)
(* iteration advances the alignment by at least 1, every Horspool skip is  *)
(* between 1 and len(pattern), every text index an iteration reads is      *)
(* inside the text, and the number of iterations never exceeds             *)
(* len(text) - len(pattern) + 1 (0 when the pattern is longer).            *)
C10_Progress ==
    /\ (alg = "bm" /\ Running) =>
          /\ loop.iters <= IterationBound
          /\ bm_guard(text, pattern, loop.shift) =>
                /\ bm_step(text, pattern, loop).shift >= loop.shift + 1
                /\ bm_reads(text, pattern, loop.shift) \subseteq 0..(Len(text) - 1)
    /\ (alg = "bmh" /\ Running) =>
          /\ loop.iters <= IterationBound
          /\ \A c \in DOMAIN skip_table(pattern) :
                skip_table(pattern)[c] \in 1..Len(pattern)
          /\ bmh_guard(text, pattern, loop.i) =>
                /\ bmh_step(text, pattern, loop).i >= loop.i + 1
                /\ bmh_step(text, pattern, loop).i <= loop.i + Len(pattern)
                /\ bmh_reads(text, pattern, loop.i) \subseteq 0..(Len(text) - 1)

\* A Boyer-Moore iteration, not the first, whose bad-character shift is not
\* positive before the floor is applied.
C10_Witness ==
    /\ alg = "bm" /\ Running
    /\ loop.iters >= 1
    /\ bm_guard(text, pattern, loop.shift)
    /\ LET j == compare_back(text, pattern, loop.shift, Len(pattern) - 1)
       IN  /\ j >= 0
           /\ j - Get(bad_char_table(pattern), At(text, loop.shift + j), -1) <= 0

----------------------------------------------------------------------------
(* Readings of an API-level call and its return value.                     *)

Returned == ret.kind # "pending"

IsScannerCall == call.op \in ScannerOps /\ Returned
IsAutomatonCall == call.op = "AhoCorasick" /\ Returned
IsSearchStr == call.op = "search" /\ ~call.is_list /\ Returned
IsSearchList == call.op = "search" /\ call.is_list /\ Returned

\* The positions of a returned sequence, none for the absent value.
PositionsOf(r) == IF r.kind = "None" THEN <<>> ELSE r.val

\* The occurrences a search call is about: those of the pattern o in the
\* text, both lower-cased unless the call is case sensitive.
CallOccurrences(o) ==
    Occurrences(fold(call.string, call.case_sensitivity),
                fold(o, call.case_sensitivity))

StrictlyAscending(s) == \A k \in 1..(Len(s) - 1) : s[k] < s[k + 1]

RECURSIVE SumLen(_, _)
SumLen(d, keys) ==
    IF keys = {} THEN 0
    ELSE LET o == CHOOSE x \in keys : TRUE
         IN  Len(PositionsOf(d[o])) + SumLen(d, keys \ {o})

\* The number of positions in a returned mapping, over all of its keys.
TotalPositions(r) == IF r.kind = "dict" THEN SumLen(r.val, DOMAIN r.val) ELSE 0

----------------------------------------------------------------------------
(* C1: for a non-empty text and a non-empty pattern each of kmp_search,    *)
(* boyer_moore_search, boyer_moore_horspool_search and rabin_karp_search   *)
(* returns the strictly ascending list of every index at which the pattern *)
(* occurs in the text, overlapping occurrences included; so the four       *)
(* return the same list.                                                   *)
C1_ScannersAgree ==
    (IsScannerCall /\ call.text # <<>> /\ call.pattern # <<>>) =>
        /\ ret.val = Occurrences(call.text, call.pattern)
        /\ StrictlyAscending(ret.val)
        /\ \A i \in 0..(Len(call.text) - 1) :
              (\E k \in 1..Len(ret.val) : ret.val[k] = i)
                  <=> (/\ i + Len(call.pattern) <= Len(call.text)
                       /\ Slice(call.text, i, i + Len(call.pattern)) = call.pattern)

\* Horspool on "aaa" with the pattern "aa" has returned [0, 1].
C1_Witness ==
    /\ IsScannerCall
    /\ call.op = "boyer_moore_horspool_search"
    /\ call.text = <<97, 97, 97>>
    /\ call.pattern = <<97, 97>>
    /\ ret.val = <<0, 1>>

----------------------------------------------------------------------------
EntriesFor(d, key) == {k \in 1..Len(d) : d[k].key = key}

(* C2: for any list of non-empty patterns, repeated ones included, and any *)
(* text, AhoCorasick.search maps each pattern that occurs to exactly the   *)
(* list kmp_search gives for it, each occurrence once, and has no entry    *)
(* for a pattern that does not occur.                                      *)
C2_AutomatonEqualsKmp ==
    IsAutomatonCall =>
        /\ \A k \in 1..Len(ret.val) : ret.val[k].key \in Range(call.patterns)
        /\ \A p \in Range(call.patterns) :
              LET expected == kmp_search(call.text, p)
                  found == EntriesFor(ret.val, p)
              IN  IF expected = <<>> THEN found = {}
                  ELSE /\ Cardinality(found) = 1
                       /\ \A k \in found : ret.val[k].val = expected

----------------------------------------------------------------------------
(* C3: for search with a pattern list and a limit k >= 0, the number of    *)
(* positions in the returned mapping, summed over its keys, is at most k.  *)
C3_CombinedLimit ==
    (IsSearchList /\ call.count # <<>>) => TotalPositions(ret) <= call.count[1]

----------------------------------------------------------------------------
(* C4: for search with a single pattern and a limit k >= 0, the number of  *)
(* positions returned (none for the absent value) is min(k, number of      *)
(* occurrences of the pattern), hence at most k; with direction "first"    *)
(* they are the k smallest occurrence positions, ascending.                *)
C4_SingleLimit ==
    (IsSearchStr /\ call.count # <<>>) =>
        LET k == call.count[1]
            occ == CallOccurrences(call.sub_string)
        IN  /\ Len(PositionsOf(ret)) <= k
            /\ Len(PositionsOf(ret)) = Min(k, Len(occ))
            /\ ret.kind = "None" <=> Min(k, Len(occ)) = 0
            /\ call.method = "first" => PositionsOf(ret) = SubSeq(occ, 1, Min(k, Len(occ)))

\* A limit of 2 has cut three or more occurrences down to the first two.
C4_Witness ==
    /\ IsSearchStr
    /\ call.method = "first"
    /\ call.count = <<2>>
    /\ Len(CallOccurrences(call.sub_string)) >= 3
    /\ ret.kind = "tuple"
    /\ ret.val = SubSeq(CallOccurrences(call.sub_string), 1, 2)

----------------------------------------------------------------------------
(* C5: for search with a single pattern and direction "last": without a    *)
(* limit the result is the reverse of the result for direction "first";    *)
(* with a limit k it is the k occurrence positions nearest the end of the  *)
(* text, descending (the list is reversed before it is cut).               *)
C5_LastIsReverse ==
    (IsSearchStr /\ call.method = "last") =>
        LET occ == CallOccurrences(call.sub_string)
            first == search(call.string, call.sub_string, FALSE,
                            call.case_sensitivity, "first", <<>>, <<>>)
        IN  /\ call.count = <<>> =>
                  /\ PositionsOf(ret) = Reverse(PositionsOf(first))
                  /\ PositionsOf(ret) = Reverse(occ)
                  /\ ret.kind = first.kind
            /\ call.count # <<>> =>
                  LET n == Min(call.count[1], Len(occ))
                  IN  /\ PositionsOf(ret) = [j \in 1..n |-> occ[Len(occ) + 1 - j]]
                      /\ ret.kind = "None" <=> n = 0

\* Direction "last" with a limit of 2 over three or more occurrences has
\* returned the last one, then the one before it.
C5_Witness ==
    /\ IsSearchStr
    /\ call.method = "last"
    /\ call.count = <<2>>
    /\ LET occ == CallOccurrences(call.sub_string)
       IN  /\ Len(occ) >= 3
           /\ ret.kind = "tuple"
           /\ ret.val = <<occ[Len(occ)], occ[Len(occ) - 1]>>

----------------------------------------------------------------------------
MatchesLeft(order) ==
    LET pats == filter_patterns(call.sub_string, call.case_sensitivity)
    IN  IF call.string = <<>> \/ pats = <<>> THEN <<>>
        ELSE limited_results(fold(call.string, call.case_sensitivity), pats,
                             call.method, call.count, order)

HasMatchLeft(left, o) ==
    \E k \in 1..Len(left) : left[k].pattern = fold(o, call.case_sensitivity)

(* C6: for search with a pattern list, empty strings allowed in it, the    *)
(* returned mapping has the original pattern strings as its keys; a key    *)
(* holds a non-empty position sequence (of occurrences of that pattern)    *)
(* exactly when the pattern has a match left after direction and limit,    *)
(* and the absent value otherwise; the whole result is absent exactly when *)
(* no pattern has a match left.  Without a limit a pattern has a match     *)
(* left exactly when it occurs in the text.                                *)
C6_ResultShape ==
    IsSearchList =>
        \A order \in Orders(CharsOf(filter_patterns(call.sub_string,
                                                     call.case_sensitivity))) :
            LET left == MatchesLeft(order)
            IN  /\ ret.kind \in {"None", "dict"}
                /\ ret.kind = "None" <=>
                       \A o \in Range(call.sub_string) : ~HasMatchLeft(left, o)
                /\ ret.kind = "dict" =>
                      /\ DOMAIN ret.val = Range(call.sub_string)
                      /\ \A o \in Range(call.sub_string) :
                            IF HasMatchLeft(left, o)
                            THEN /\ ret.val[o].kind = "tuple"
                                 /\ ret.val[o].val # <<>>
                                 /\ Range(ret.val[o].val)
                                        \subseteq Range(CallOccurrences(o))
                            ELSE ret.val[o].kind = "None"
                /\ call.count = <<>> =>
                      \A o \in Range(call.sub_string) :
                          /\ HasMatchLeft(left, o) <=> CallOccurrences(o) # <<>>
                          /\ ret.kind = "dict" =>
                                Range(PositionsOf(ret.val[o]))
                                    = Range(CallOccurrences(o))

\* A case-insensitive list search whose limit left one pattern, keyed by
\* its upper-case original, with matches and took every match of another
\* pattern that does occur.
C6_Witness ==
    /\ IsSearchList
    /\ ~call.case_sensitivity
    /\ call.count # <<>>
    /\ ret.kind = "dict"
    /\ \E o1, o2 \in DOMAIN ret.val :
          /\ o1 # Lower(o1)
          /\ ret.val[o1].kind = "tuple"
          /\ ret.val[o2].kind = "None"
          /\ CallOccurrences(o2) # <<>>

----------------------------------------------------------------------------
(* C7: search returns the absent value when the text is empty, when the    *)
(* single pattern is the empty string, when the pattern list is empty and  *)
(* when the pattern list holds only empty strings, whatever the case flag, *)
(* the direction and the limit; each single-pattern scanner returns an     *)
(* empty list for an empty pattern.                                        *)
C7_SoftFailure ==
    /\ (/\ call.op = "search" /\ Returned
        /\ \/ call.string = <<>>
           \/ call.sub_string = <<>>
           \/ (call.is_list /\ \A k \in 1..Len(call.sub_string) : call.sub_string[k] = <<>>))
       => ret = None
    /\ (IsScannerCall /\ call.pattern = <<>>) => ret = ListOf(<<>>)

\* A search of a non-empty text for a list of two empty strings has
\* returned the absent value.
C7_Witness ==
    /\ IsSearchList
    /\ call.string # <<>>
    /\ call.sub_string = <<<<>>, <<>>>>
    /\ call.count = <<>>
    /\ ret = None

====
